---- MODULE Spec2Model ----
(***************************************************************************)
(* Mimic Chess (roro3847may/mimic-chess).                                  *)
(*                                                                         *)
(* The module models the App component of src/unnamed/part_000: the move   *)
(* generator calculateValidMoves, the move applier handleMove, the click   *)
(* handler onSquareClick, resetGame, and the PeerJS wiring (host effect,   *)
(* joinGame, the 'connection', 'open' and 'data' events).  Two browser     *)
(* instances of the component are modelled, "A" and "B"; every state       *)
(* variable of the component is a function of the instance.                *)
(*                                                                         *)
(* chess.js is used by the component only as a codec of the position       *)
(* (new Chess(fen).get / remove / put / fen); a fen is modelled by the two *)
(* tokens the component reads or writes: the piece placement and the       *)
(* active colour.                                                          *)
(***************************************************************************)
EXTENDS Integers, Sequences, FiniteSets, TLC

\* ------------------------------------------------------------------ bounds
\* Largest number of moves applied in one game.
MaxPlies == 7

\* ------------------------------------------------------ constants, helpers
null == "null"
noSquare == <<>>
NoPiece == [type |-> "none", color |-> "none", home |-> <<>>, moved |-> FALSE]

COLS == <<"a", "b", "c", "d", "e", "f", "g", "h">>
ROWS == <<"1", "2", "3", "4", "5", "6", "7", "8">>

\* Array.prototype.indexOf on COLS / ROWS: 0-based, -1 when absent.
indexOf(arr, c) ==
  IF \E i \in 1..Len(arr) : arr[i] = c
  THEN (CHOOSE i \in 1..Len(arr) : arr[i] = c /\ \A j \in 1..(i-1) : arr[j] # c) - 1
  ELSE -1

toCoords(sq) == [x |-> indexOf(COLS, sq[1]), y |-> indexOf(ROWS, sq[2])]

\* Mutant: coordinates wrap around the board.
toSquareWrap(x, y) == <<COLS[(x % 8) + 1], ROWS[(y % 8) + 1]>>

toSquare(x, y) ==
  IF x >= 0 /\ x < 8 /\ y >= 0 /\ y < 8 THEN <<COLS[x + 1], ROWS[y + 1]>> ELSE noSquare

Squares == {<<COLS[i], ROWS[j]>> : i \in 1..8, j \in 1..8}

Colors == {"w", "b"}
Kinds == {"p", "n", "b", "r", "q", "k"}

\* A piece as chess.js returns it, {type, color}.  The fields home and moved
\* are history variables: the square the piece stood on at game start, and
\* whether the piece has been the mover of an applied move.  The program
\* never reads them.
Piece(t, c, h, m) == [type |-> t, color |-> c, home |-> h, moved |-> m]

getPiece(f, sq) == f.placement[sq]

\* "rnbqkbnr/pppppppp/8/8/8/8/PPPPPPPP/RNBQKBNR w KQkq - 0 1"
BackRank == <<"r", "n", "b", "q", "k", "b", "n", "r">>

startFen ==
  [placement |->
     [sq \in Squares |->
        LET c == toCoords(sq) IN
        CASE c.y = 0 -> Piece(BackRank[c.x + 1], "w", sq, FALSE)
          [] c.y = 1 -> Piece("p", "w", sq, FALSE)
          [] c.y = 6 -> Piece("p", "b", sq, FALSE)
          [] c.y = 7 -> Piece(BackRank[c.x + 1], "b", sq, FALSE)
          [] OTHER -> NoPiece],
   active |-> "w"]

\* Mutant: only the pawn ranks are marked.
startUnmovedPawnsOnly ==
  {<<c, r>> : c \in {"a", "b", "c", "d", "e", "f", "g", "h"}, r \in {"2", "7"}}

\* resetGame: the squares of ranks 1, 2, 7, 8 that hold a piece in startFen.
startUnmoved ==
  {sq \in {<<c, r>> : c \in {"a", "b", "c", "d", "e", "f", "g", "h"}, r \in {"1", "2", "7", "8"}} :
     getPiece(startFen, sq) # NoPiece}

\* ---------------------------------------------------------- move generator
\* Mutant: the king moves along ranks and files only.
vecsKingAsRook ==
  [n |-> {<<1, 2>>, <<2, 1>>, <<2, -1>>, <<1, -2>>, <<-1, -2>>, <<-2, -1>>, <<-2, 1>>, <<-1, 2>>},
   b |-> {<<1, 1>>, <<1, -1>>, <<-1, -1>>, <<-1, 1>>},
   r |-> {<<1, 0>>, <<-1, 0>>, <<0, 1>>, <<0, -1>>},
   q |-> {<<1, 0>>, <<-1, 0>>, <<0, 1>>, <<0, -1>>, <<1, 1>>, <<1, -1>>, <<-1, -1>>, <<-1, 1>>},
   k |-> {<<1, 0>>, <<-1, 0>>, <<0, 1>>, <<0, -1>>}]

vecs ==
  [n |-> {<<1, 2>>, <<2, 1>>, <<2, -1>>, <<1, -2>>, <<-1, -2>>, <<-2, -1>>, <<-2, 1>>, <<-1, 2>>},
   b |-> {<<1, 1>>, <<1, -1>>, <<-1, -1>>, <<-1, 1>>},
   r |-> {<<1, 0>>, <<-1, 0>>, <<0, 1>>, <<0, -1>>},
   q |-> {<<1, 0>>, <<-1, 0>>, <<0, 1>>, <<0, -1>>, <<1, 1>>, <<1, -1>>, <<-1, -1>>, <<-1, 1>>},
   k |-> {<<1, 0>>, <<-1, 0>>, <<0, 1>>, <<0, -1>>, <<1, 1>>, <<1, -1>>, <<-1, -1>>, <<-1, 1>>}]

\* Mutant: the history is ignored and the piece always moves as its own kind.
logicTypeOwnKind(piece, playerHistory) == piece.type

\* The effective movement kind: the piece's own kind when the player's
\* history is empty, else the last kind of the player's own history.
logicTypeOf(piece, playerHistory) ==
  IF Len(playerHistory) >= 1 THEN playerHistory[Len(playerHistory)] ELSE piece.type

\* Mutant: a square held by a piece of the mover's colour is pushed too.
tryAddPushAny(currentFen, opponent, tx, ty) ==
  LET ts == toSquare(tx, ty) IN
  IF ts = noSquare THEN {} ELSE {ts}

\* tryAdd: the squares it pushes, and its return value.
tryAddPush(currentFen, opponent, tx, ty) ==
  LET ts == toSquare(tx, ty) IN
  IF ts = noSquare THEN {}
  ELSE LET tp == getPiece(currentFen, ts) IN
       IF tp = NoPiece THEN {ts}
       ELSE IF tp.color = opponent THEN {ts}
       ELSE {}

\* Mutant: sliding goes on after a capture.
tryAddReturnThrough(currentFen, opponent, tx, ty) ==
  LET ts == toSquare(tx, ty) IN
  IF ts = noSquare THEN FALSE
  ELSE getPiece(currentFen, ts) = NoPiece \/ getPiece(currentFen, ts).color = opponent

tryAddReturn(currentFen, opponent, tx, ty) ==
  LET ts == toSquare(tx, ty) IN
  IF ts = noSquare THEN FALSE
  ELSE getPiece(currentFen, ts) = NoPiece

\* while(tryAdd(tx, ty)) { tx += dx; ty += dy; }
RECURSIVE slide(_, _, _, _, _, _)
slide(currentFen, opponent, tx, ty, dx, dy) ==
  tryAddPush(currentFen, opponent, tx, ty) \cup
    (IF tryAddReturn(currentFen, opponent, tx, ty)
     THEN slide(currentFen, opponent, tx + dx, ty + dy, dx, dy)
     ELSE {})

\* Mutant: the unmoved set is not consulted.
dashAnyOrigin(currentFen, unmovedNow, square, f2) ==
  f2 # noSquare /\ getPiece(currentFen, f2) = NoPiece

\* The dash condition of the pawn branch (evaluated once f1 is known empty).
dashAllowed(currentFen, unmovedNow, square, f2) ==
  square \in unmovedNow /\ f2 # noSquare /\ getPiece(currentFen, f2) = NoPiece

\* Mutant: forward is +1 rank for both colours.
pawnMovesWhiteDir(currentFen, currentTurn, opponent, unmovedNow, square, cx, cy) ==
  LET dir == 1
      f1 == toSquare(cx, cy + dir)
      f2 == toSquare(cx, cy + dir * 2)
      forward ==
        IF f1 # noSquare /\ getPiece(currentFen, f1) = NoPiece
        THEN {f1} \cup (IF dashAllowed(currentFen, unmovedNow, square, f2) THEN {f2} ELSE {})
        ELSE {}
      diag ==
        {ts \in {toSquare(cx + 1, cy + dir), toSquare(cx - 1, cy + dir)} :
           ts # noSquare /\ getPiece(currentFen, ts) # NoPiece
             /\ getPiece(currentFen, ts).color = opponent}
  IN forward \cup diag

pawnMoves(currentFen, currentTurn, opponent, unmovedNow, square, cx, cy) ==
  LET dir == IF currentTurn = "w" THEN 1 ELSE -1
      f1 == toSquare(cx, cy + dir)
      f2 == toSquare(cx, cy + dir * 2)
      forward ==
        IF f1 # noSquare /\ getPiece(currentFen, f1) = NoPiece
        THEN {f1} \cup (IF dashAllowed(currentFen, unmovedNow, square, f2) THEN {f2} ELSE {})
        ELSE {}
      diag ==
        {ts \in {toSquare(cx + 1, cy + dir), toSquare(cx - 1, cy + dir)} :
           ts # noSquare /\ getPiece(currentFen, ts) # NoPiece
             /\ getPiece(currentFen, ts).color = opponent}
  IN forward \cup diag

\* Mutant: only the empty origin is tested.
noMovesForEmptyOnly(piece, currentTurn) == piece = NoPiece

\* The early return of calculateValidMoves.
noMovesFor(piece, currentTurn) == piece = NoPiece \/ piece.color # currentTurn

\* calculateValidMoves(square, currentFen, currentTurn, history); the fifth
\* argument is the component's unmoved state, which the function reads from
\* its closure.  The result is an array in the code; only membership
\* (validMoves.includes) is ever read, so it is modelled as a set.
calculateValidMoves(square, currentFen, currentTurn, history, unmovedNow) ==
  LET piece == getPiece(currentFen, square) IN
  IF noMovesFor(piece, currentTurn) THEN {}
  ELSE
    LET c == toCoords(square)
        opponent == IF currentTurn = "w" THEN "b" ELSE "w"
        l == logicTypeOf(piece, history[currentTurn])
    IN
    CASE l \in {"b", "r", "q"} ->
           UNION {slide(currentFen, opponent, c.x + v[1], c.y + v[2], v[1], v[2]) : v \in vecs[l]}
      [] l \in {"n", "k"} ->
           UNION {tryAddPush(currentFen, opponent, c.x + v[1], c.y + v[2]) : v \in vecs[l]}
      [] l = "p" ->
           pawnMoves(currentFen, currentTurn, opponent, unmovedNow, square, c.x, c.y)
      [] OTHER -> {}

\* ------------------------------------------------------------------- state
Instances == {"A", "B"}

\* The menu button each modelled browser instance presses: instance A plays
\* locally or creates a room, instance B joins a room.
menuChoices == [A |-> {"LOCAL", "ONLINE_HOST"}, B |-> {"ONLINE_JOIN"}]

\* The squares the players click on.
ClickSquares ==
  {<<"b", "1">>, <<"c", "3">>, <<"d", "1">>, <<"e", "3">>, <<"d", "2">>, <<"e", "2">>,
   <<"e", "4">>, <<"d", "7">>, <<"c", "8">>, <<"e", "8">>, <<"b", "8">>, <<"c", "6">>,
   <<"e", "1">>, <<"e", "5">>}

VARIABLES
  fen,             \* useState: [placement, active]
  turn,            \* useState: "w" | "b"
  moveHistory,     \* useState: [w |-> seq of kinds, b |-> seq of kinds]
  unmoved,         \* useState: the keys of the unmoved object
  winner,          \* useState: null | "w" | "b"
  mode,            \* useState: "MENU" | "LOCAL" | "ONLINE_HOST" | "ONLINE_JOIN"
  myColor,         \* useState: "BOTH" | "w" | "b"
  conn,            \* useState: null | "conn" (a DataConnection)
  peerRef,         \* useRef: TRUE when peerRef.current holds a Peer
  selectedSquare,  \* useState: noSquare | square
  validMoves,      \* useState: set of squares
  connOpen,        \* the open flag of the instance's DataConnection
  inFlight,        \* messages sent to the instance and not yet delivered
  offer,           \* a connection request the host has not yet seen
  syncData,        \* the state captured by the closure of the host's 'open' handler
  lastMove,        \* history variable: the last call of handleMove that applied a move
  convIn,          \* the argument of a conversion: [sq |-> square, xy |-> pair]
  convSq,          \* the last result of toSquare
  convXY,          \* the last result of toCoords, as the pair <<x, y>>
  convPc,          \* the position in a chain of conversions
  game,            \* App.js, second App: useState, the Chess object
  gameState,       \* App.js, second App: useState {moveLogic, lastMovedPieceType, history, pieceHasMoved}
  warning,         \* App.js, second App: useState, null or a message
  isGameOver,      \* App.js, second App: const isGameOver = game.isGameOver() of the last render
  effects          \* App.js, second App: the effects the last commit left to run

appVars == <<fen, turn, moveHistory, unmoved, winner, mode, myColor, conn, peerRef,
             selectedSquare, validMoves, connOpen, inFlight, offer, syncData, lastMove>>

convVars == <<convIn, convSq, convXY, convPc>>

mimicVars == <<game, gameState, warning, isGameOver, effects>>

restVars == <<convVars, mimicVars>>

vars == <<appVars, convVars, mimicVars>>

gameVars == <<fen, turn, moveHistory, unmoved, winner>>
uiVars == <<selectedSquare, validMoves>>
netVars == <<conn, peerRef, connOpen, inFlight, offer, syncData>>

GameData(f, t, h, u, w) == [fen |-> f, turn |-> t, history |-> h, unmoved |-> u, winner |-> w]

emptyHistory == [w |-> <<>>, b |-> <<>>]

noMove == [by |-> "none", from |-> noSquare, to |-> noSquare, ply |-> 0]

\* The values resetGame sets.
resetData == GameData(startFen, "w", emptyHistory, startUnmoved, null)

\* The component after its first render and its mount effect (resetGame).
appInit ==
  /\ fen = [i \in Instances |-> startFen]
  /\ turn = [i \in Instances |-> "w"]
  /\ moveHistory = [i \in Instances |-> emptyHistory]
  /\ unmoved = [i \in Instances |-> startUnmoved]
  /\ winner = [i \in Instances |-> null]
  /\ mode = [i \in Instances |-> "MENU"]
  /\ myColor = [i \in Instances |-> "BOTH"]
  /\ conn = [i \in Instances |-> null]
  /\ peerRef = [i \in Instances |-> FALSE]
  /\ selectedSquare = [i \in Instances |-> noSquare]
  /\ validMoves = [i \in Instances |-> {}]
  /\ connOpen = [i \in Instances |-> FALSE]
  /\ inFlight = [i \in Instances |-> <<>>]
  /\ offer = FALSE
  /\ syncData = resetData
  /\ lastMove = noMove

noPair == <<>>

\* new Chess(INITIAL_GAME_STATE.fen): the position, the side to move, the en
\* passant square, the move counters of the FEN (as a number of plies) and
\* the moves made on this object.  Castling rights are left out: no castling
\* move exists in the first six plies of a game.
newChess ==
  [placement |-> startFen.placement, turn |-> "w", ep |-> noSquare, plies |-> 0, history |-> <<>>]

\* INITIAL_GAME_STATE without fen; of pieceHasMoved only the p arrays are
\* ever read or written, each kept as the set of its true indices.
INITIAL_GAME_STATE ==
  [moveLogic |-> "STANDARD", lastMovedPieceType |-> null, history |-> <<>>,
   pieceHasMoved |-> [w |-> {}, b |-> {}]]

\* The second App of App.js after its first render and its mount effects.
mimicInit ==
  /\ game = newChess
  /\ gameState = INITIAL_GAME_STATE
  /\ warning = null
  /\ isGameOver = FALSE
  /\ effects = <<>>

Init ==
  /\ appInit
  /\ mimicInit
  /\ convIn = [sq |-> noSquare, xy |-> noPair]
  /\ convSq = noSquare
  /\ convXY = noPair
  /\ convPc = "idle"

\* ------------------------------------------------------------ move applier
\* handleMove: the kind put on the destination square.
placedType(piece, to) ==
  IF piece.type = "p" /\ (to[2] = "1" \/ to[2] = "8") THEN "q" ELSE piece.type

\* Mutant: the recorded kind is the kind that was put on the destination.
recordedTypePlaced(piece, to) == placedType(piece, to)

\* handleMove: the kind appended to the mover's history.
recordedTypeOf(piece, to) ==
  IF piece.type = "p" /\ (to[2] = "8" \/ to[2] = "1") THEN "p" ELSE piece.type

\* Mutant: the origin square is not emptied.
newFenKeepOrigin(f, piece, from, to) ==
  [placement |-> [f.placement EXCEPT ![to] = Piece(placedType(piece, to), piece.color, piece.home, TRUE)],
   active |-> IF piece.color = "w" THEN "b" ELSE "w"]

\* Mutant: a move that changes file also empties the square beside the
\* origin, on the destination's file (an en-passant removal).
newFenEnPassant(f, piece, from, to) ==
  [placement |-> [f.placement EXCEPT ![<<to[1], from[2]>>] = NoPiece,
                                     ![from] = NoPiece,
                                     ![to] = Piece(placedType(piece, to), piece.color, piece.home, TRUE)],
   active |-> IF piece.color = "w" THEN "b" ELSE "w"]

\* Mutant: the active colour is not switched.
newFenSameTurn(f, piece, from, to) ==
  [placement |-> [f.placement EXCEPT ![from] = NoPiece,
                                     ![to] = Piece(placedType(piece, to), piece.color, piece.home, TRUE)],
   active |-> piece.color]

\* handleMove: temp.remove(from); temp.put({type, color}, to); tokens[1] = other colour.
newFenOf(f, piece, from, to) ==
  [placement |-> [f.placement EXCEPT ![from] = NoPiece,
                                     ![to] = Piece(placedType(piece, to), piece.color, piece.home, TRUE)],
   active |-> IF piece.color = "w" THEN "b" ELSE "w"]

\* Mutant: every kind is appended to white's history.
newHistoryWhite(h, t, recordedType) == [h EXCEPT !["w"] = Append(h["w"], recordedType)]

\* Mutant: only the last kind is kept.
newHistoryLastOnly(h, t, recordedType) == [h EXCEPT ![t] = <<recordedType>>]

newHistoryOf(h, t, recordedType) == [h EXCEPT ![t] = Append(h[t], recordedType)]

\* Mutant: the origin square is not deleted.
newUnmovedKept(u, from) == u

newUnmovedOf(u, from) == u \ {from}

\* Mutant: no capture wins.
newWinnerNever(target, t) == null

\* Mutant: any capture wins.
newWinnerAnyCapture(target, t) == IF target # NoPiece THEN t ELSE null

newWinnerOf(target, t) ==
  IF target # NoPiece /\ target.type = "k" THEN t ELSE null

\* The arguments handleMove passes to updateGameState (and sends as MOVE).
handleMoveData(i, from, to) ==
  LET piece == getPiece(fen[i], from)
      newFen == newFenOf(fen[i], piece, from, to)
  IN GameData(newFen, newFen.active,
              newHistoryOf(moveHistory[i], turn[i], recordedTypeOf(piece, to)),
              newUnmovedOf(unmoved[i], from),
              newWinnerOf(getPiece(fen[i], to), turn[i]))

\* The two early returns of handleMove.
handleMoveApplies(i, from) ==
  LET piece == getPiece(fen[i], from) IN
  /\ piece # NoPiece /\ piece.color = turn[i]
  /\ myColor[i] = "BOTH" \/ myColor[i] = turn[i]

\* if (conn && conn.open) conn.send(...)
sendsMove(i) == conn[i] # null /\ connOpen[i]

Other(i) == CHOOSE j \in Instances : j # i

\* Mutant: the selection and the valid-move list are kept.
updateGameStateKeepSelection(i, d) ==
  /\ fen' = [fen EXCEPT ![i] = d.fen]
  /\ turn' = [turn EXCEPT ![i] = d.turn]
  /\ moveHistory' = [moveHistory EXCEPT ![i] = d.history]
  /\ unmoved' = [unmoved EXCEPT ![i] = d.unmoved]
  /\ winner' = [winner EXCEPT ![i] = d.winner]
  /\ UNCHANGED <<selectedSquare, validMoves>>

\* Mutant: the unmoved set of the instance is merged with the new one.
updateGameStateMerge(i, d) ==
  /\ fen' = [fen EXCEPT ![i] = d.fen]
  /\ turn' = [turn EXCEPT ![i] = d.turn]
  /\ moveHistory' = [moveHistory EXCEPT ![i] = d.history]
  /\ unmoved' = [unmoved EXCEPT ![i] = @ \cup d.unmoved]
  /\ winner' = [winner EXCEPT ![i] = d.winner]
  /\ selectedSquare' = [selectedSquare EXCEPT ![i] = noSquare]
  /\ validMoves' = [validMoves EXCEPT ![i] = {}]

\* updateGameState(f, t, h, u, w)
updateGameState(i, d) ==
  /\ fen' = [fen EXCEPT ![i] = d.fen]
  /\ turn' = [turn EXCEPT ![i] = d.turn]
  /\ moveHistory' = [moveHistory EXCEPT ![i] = d.history]
  /\ unmoved' = [unmoved EXCEPT ![i] = d.unmoved]
  /\ winner' = [winner EXCEPT ![i] = d.winner]
  /\ selectedSquare' = [selectedSquare EXCEPT ![i] = noSquare]
  /\ validMoves' = [validMoves EXCEPT ![i] = {}]

handleMove(i, from, to) ==
  IF handleMoveApplies(i, from)
  THEN /\ updateGameState(i, handleMoveData(i, from, to))
       /\ inFlight' = IF sendsMove(i)
                      THEN [inFlight EXCEPT ![Other(i)] =
                              Append(@, [type |-> "MOVE", data |-> handleMoveData(i, from, to)])]
                      ELSE inFlight
       /\ lastMove' = [by |-> i, from |-> from, to |-> to,
                       ply |-> Len(moveHistory[i].w) + Len(moveHistory[i].b) + 1]
       /\ UNCHANGED <<mode, myColor, conn, peerRef, connOpen, offer, syncData>>
  ELSE UNCHANGED vars

\* ---------------------------------------------------------------- handlers
\* The board is rendered (and can be clicked) in the GAME screen only.
boardShown(i) ==
  /\ mode[i] # "MENU"
  /\ ~(mode[i] \in {"ONLINE_HOST", "ONLINE_JOIN"} /\ conn[i] = null)

pliesPlayed(i) == Len(moveHistory[i].w) + Len(moveHistory[i].b)

\* Mutant: the winner is not tested.
clickIgnoredNoWinner(i) == myColor[i] # "BOTH" /\ myColor[i] # turn[i]

\* The first line of onSquareClick: the click is ignored.
clickIgnored(i) == winner[i] # null \/ (myColor[i] # "BOTH" /\ myColor[i] # turn[i])

\* The click is one that reaches handleMove.
clickMoves(i, square) ==
  /\ ~clickIgnored(i)
  /\ selectedSquare[i] # noSquare /\ square \in validMoves[i]

onSquareClick(i, square) ==
  /\ boardShown(i)
  /\ IF clickIgnored(i)
     THEN UNCHANGED vars
     ELSE IF selectedSquare[i] # noSquare /\ square \in validMoves[i]
     THEN handleMove(i, selectedSquare[i], square)
     ELSE LET p == getPiece(fen[i], square) IN
          /\ IF p # NoPiece /\ p.color = turn[i]
             THEN /\ selectedSquare' = [selectedSquare EXCEPT ![i] = square]
                  /\ validMoves' = [validMoves EXCEPT ![i] =
                       calculateValidMoves(square, fen[i], turn[i], moveHistory[i], unmoved[i])]
             ELSE /\ selectedSquare' = [selectedSquare EXCEPT ![i] = noSquare]
                  /\ validMoves' = [validMoves EXCEPT ![i] = {}]
          /\ UNCHANGED <<gameVars, mode, myColor, netVars, lastMove>>
  /\ UNCHANGED restVars

\* A click of a user who stops applying moves after MaxPlies plies.
userClick(i, square) ==
  /\ clickMoves(i, square) => pliesPlayed(i) < MaxPlies
  /\ onSquareClick(i, square)

\* resetGame
resetGame(i) ==
  /\ fen' = [fen EXCEPT ![i] = startFen]
  /\ turn' = [turn EXCEPT ![i] = "w"]
  /\ moveHistory' = [moveHistory EXCEPT ![i] = emptyHistory]
  /\ unmoved' = [unmoved EXCEPT ![i] = startUnmoved]
  /\ winner' = [winner EXCEPT ![i] = null]
  /\ selectedSquare' = [selectedSquare EXCEPT ![i] = noSquare]
  /\ validMoves' = [validMoves EXCEPT ![i] = {}]

\* Mutant: the Join Room button sets the colour white, as Create Room does.
menuButtonJoinWhite(i, m) ==
  /\ mode[i] = "MENU"
  /\ m \in menuChoices[i]
  /\ mode' = [mode EXCEPT ![i] = m]
  /\ myColor' = [myColor EXCEPT ![i] =
       CASE m = "LOCAL" -> "BOTH" [] m = "ONLINE_HOST" -> "w" [] OTHER -> "w"]
  /\ resetGame(i)
  /\ peerRef' = [peerRef EXCEPT ![i] = @ \/ m \in {"ONLINE_HOST", "ONLINE_JOIN"}]
  /\ syncData' = IF m = "ONLINE_HOST" /\ ~peerRef[i]
                 THEN GameData(fen'[i], turn'[i], moveHistory'[i], unmoved'[i], winner'[i])
                 ELSE syncData
  /\ UNCHANGED <<conn, connOpen, inFlight, offer, lastMove, restVars>>

\* A menu button: setMode(m); setMyColor(..); resetGame(); then the effect
\* on [mode], which creates the Peer and, for the host, registers the
\* 'connection' handler whose closure holds the state of that render.
menuButton(i, m) ==
  /\ mode[i] = "MENU"
  /\ m \in menuChoices[i]
  /\ mode' = [mode EXCEPT ![i] = m]
  /\ myColor' = [myColor EXCEPT ![i] =
       CASE m = "LOCAL" -> "BOTH" [] m = "ONLINE_HOST" -> "w" [] OTHER -> "b"]
  /\ resetGame(i)
  /\ peerRef' = [peerRef EXCEPT ![i] = @ \/ m \in {"ONLINE_HOST", "ONLINE_JOIN"}]
  /\ syncData' = IF m = "ONLINE_HOST" /\ ~peerRef[i]
                 THEN GameData(fen'[i], turn'[i], moveHistory'[i], unmoved'[i], winner'[i])
                 ELSE syncData
  /\ UNCHANGED <<conn, connOpen, inFlight, offer, lastMove, restVars>>

\* joinGame, with the room id of the host typed in.  The connection request
\* reaches a host only if one has created its Peer.
joinGame(i) ==
  /\ mode[i] = "ONLINE_JOIN" /\ conn[i] = null
  /\ peerRef[i]
  /\ conn' = [conn EXCEPT ![i] = "conn"]
  /\ offer' = (mode[Other(i)] = "ONLINE_HOST" /\ peerRef[Other(i)])
  /\ UNCHANGED <<gameVars, uiVars, mode, myColor, peerRef, connOpen, inFlight, syncData, lastMove, restVars>>

\* peer.on('connection'): setConn(c) and the registration of the handlers.
onConnection(i) ==
  /\ mode[i] = "ONLINE_HOST" /\ peerRef[i]
  /\ offer
  /\ offer' = FALSE
  /\ conn' = [conn EXCEPT ![i] = "conn"]
  /\ UNCHANGED <<gameVars, uiVars, mode, myColor, peerRef, connOpen, inFlight, syncData, lastMove, restVars>>

\* The connection opens on one side; on the host, c.on('open') sends SYNC
\* with the state its closure captured.
onOpen(i) ==
  /\ conn[i] # null /\ ~connOpen[i]
  /\ \E h \in Instances : mode[h] = "ONLINE_HOST" /\ conn[h] # null
  /\ connOpen' = [connOpen EXCEPT ![i] = TRUE]
  /\ inFlight' = IF mode[i] = "ONLINE_HOST"
                 THEN [inFlight EXCEPT ![Other(i)] = Append(@, [type |-> "SYNC", data |-> syncData])]
                 ELSE inFlight
  /\ UNCHANGED <<gameVars, uiVars, mode, myColor, conn, peerRef, offer, syncData, lastMove, restVars>>

\* The input of the data handler is whatever the remote side sends.  The
\* application itself sends MOVE and SYNC only; a message of another type
\* joins the messages in flight, during the first MaxOtherPly plies.
otherTypes == {"PING"}

MaxOtherPly == 2

otherData(i) ==
  /\ connOpen[i]
  /\ inFlight[i] = <<>>
  /\ pliesPlayed(i) < MaxOtherPly
  /\ \E t \in otherTypes :
       inFlight' = [inFlight EXCEPT ![i] = Append(@, [type |-> t, data |-> resetData])]
  /\ UNCHANGED <<gameVars, uiVars, mode, myColor, conn, peerRef, connOpen, offer, syncData, lastMove, restVars>>

\* c.on('data'): delivery of the oldest message in flight.
onData(i) ==
  /\ connOpen[i]
  /\ inFlight[i] # <<>>
  /\ LET d == Head(inFlight[i]) IN
     IF d.type = "MOVE" \/ d.type = "SYNC"
     THEN updateGameState(i, d.data)
     ELSE UNCHANGED <<gameVars, uiVars>>
  /\ inFlight' = [inFlight EXCEPT ![i] = Tail(@)]
  /\ UNCHANGED <<mode, myColor, conn, peerRef, connOpen, offer, syncData, lastMove, restVars>>

Next ==
  \/ \E i \in Instances, m \in {"LOCAL", "ONLINE_HOST", "ONLINE_JOIN"} : menuButton(i, m)
  \/ \E i \in Instances : joinGame(i)
  \/ \E i \in Instances : onConnection(i)
  \/ \E i \in Instances : onOpen(i)
  \/ \E i \in Instances : otherData(i)
  \/ \E i \in Instances : onData(i)
  \/ \E i \in Instances, square \in ClickSquares : userClick(i, square)

Spec == Init /\ [][Next]_vars

\* ---------------------------------------------------- the conversions alone
\* toCoords and toSquare applied to arguments drawn from the 64 squares and
\* from the pairs of -MaxOff .. 7 + MaxOff; the component stays as mounted.
MaxOff == 2

ConvRange == (0 - MaxOff)..(7 + MaxOff)

ConvInit ==
  /\ appInit
  /\ mimicInit
  /\ convSq = noSquare
  /\ convXY = noPair
  /\ \/ convPc = "sq" /\ \E s \in Squares : convIn = [sq |-> s, xy |-> noPair]
     \/ convPc = "xy" /\ \E p \in ConvRange \X ConvRange : convIn = [sq |-> noSquare, xy |-> p]

\* toCoords(sq): of the drawn square, or of the square toSquare returned.
applyToCoords ==
  /\ \/ convPc = "sq"
     \/ convPc = "xySq" /\ convSq # noSquare
  /\ LET c == toCoords(IF convPc = "sq" THEN convIn.sq ELSE convSq) IN
     convXY' = <<c.x, c.y>>
  /\ convPc' = IF convPc = "sq" THEN "sqXY" ELSE "xySqXY"
  /\ UNCHANGED <<appVars, mimicVars, convIn, convSq>>

\* toSquare(x, y): of the drawn pair, or of the pair toCoords returned.
applyToSquare ==
  /\ convPc \in {"xy", "sqXY"}
  /\ LET p == IF convPc = "xy" THEN convIn.xy ELSE convXY IN
     convSq' = toSquare(p[1], p[2])
  /\ convPc' = IF convPc = "xy" THEN "xySq" ELSE "sqXYSq"
  /\ UNCHANGED <<appVars, mimicVars, convIn, convXY>>

ConvNext == applyToCoords \/ applyToSquare

ConvSpec == ConvInit /\ [][ConvNext]_vars

\* ------------------------------------------------------ one recorded game
\* A local game of 38 plies, as pairs of clicked squares (origin,
\* destination), one line per move of white and reply of black.
script ==
  <<
    <<<<"e", "2">>, <<"e", "4">>>>, <<<<"f", "7">>, <<"f", "6">>>>,
    <<<<"a", "2">>, <<"a", "3">>>>, <<<<"g", "7">>, <<"g", "6">>>>,
    <<<<"e", "4">>, <<"e", "5">>>>, <<<<"f", "6">>, <<"e", "5">>>>,
    <<<<"g", "2">>, <<"g", "3">>>>, <<<<"d", "7">>, <<"d", "5">>>>,
    <<<<"a", "1">>, <<"a", "2">>>>, <<<<"e", "7">>, <<"e", "6">>>>,
    <<<<"g", "3">>, <<"g", "4">>>>, <<<<"c", "7">>, <<"c", "6">>>>,
    <<<<"g", "4">>, <<"g", "5">>>>, <<<<"f", "8">>, <<"f", "6">>>>,
    <<<<"f", "2">>, <<"f", "3">>>>, <<<<"a", "7">>, <<"g", "1">>>>,
    <<<<"h", "2">>, <<"h", "3">>>>, <<<<"f", "6">>, <<"g", "5">>>>,
    <<<<"b", "2">>, <<"b", "4">>>>, <<<<"g", "5">>, <<"d", "2">>>>,
    <<<<"h", "1">>, <<"h", "2">>>>, <<<<"g", "1">>, <<"h", "2">>>>,
    <<<<"a", "3">>, <<"a", "5">>>>, <<<<"d", "5">>, <<"a", "2">>>>,
    <<<<"b", "4">>, <<"b", "5">>>>, <<<<"c", "6">>, <<"b", "5">>>>,
    <<<<"a", "5">>, <<"a", "6">>>>, <<<<"a", "2">>, <<"b", "1">>>>,
    <<<<"a", "6">>, <<"a", "7">>>>, <<<<"b", "8">>, <<"a", "7">>>>,
    <<<<"h", "3">>, <<"h", "4">>>>, <<<<"h", "2">>, <<"f", "3">>>>,
    <<<<"e", "1">>, <<"e", "2">>>>, <<<<"b", "1">>, <<"c", "2">>>>,
    <<<<"e", "2">>, <<"f", "2">>>>, <<<<"c", "2">>, <<"c", "1">>>>,
    <<<<"h", "4">>, <<"h", "3">>>>, <<<<"h", "7">>, <<"h", "3">>>>
  >>

\* Instance A enters local play.
scriptMenu == menuButton("A", "LOCAL")

\* A click on the board of instance A: the click that applies a move is the
\* next of the recorded game; any click that applies no move is allowed.
scriptClick(square) ==
  /\ clickMoves("A", square) =>
       /\ pliesPlayed("A") < Len(script)
       /\ selectedSquare["A"] = script[pliesPlayed("A") + 1][1]
       /\ square = script[pliesPlayed("A") + 1][2]
  /\ onSquareClick("A", square)

ScriptNext == scriptMenu \/ \E square \in Squares : scriptClick(square)

ScriptSpec == Init /\ [][ScriptNext]_vars

\* ------------------------------------------------- reference definitions
\* The movement geometry of each kind, stated on integer coordinates and
\* independently of the generator above.
colNo == [a |-> 0, b |-> 1, c |-> 2, d |-> 3, e |-> 4, f |-> 5, g |-> 6, h |-> 7]
rowNo == ("1" :> 0) @@ ("2" :> 1) @@ ("3" :> 2) @@ ("4" :> 3) @@ ("5" :> 4) @@ ("6" :> 5)
           @@ ("7" :> 6) @@ ("8" :> 7)

OnBoard(x, y) == x \in 0..7 /\ y \in 0..7
SqAt(x, y) == <<COLS[x + 1], ROWS[y + 1]>>
IsEmpty(f, x, y) == OnBoard(x, y) /\ f.placement[SqAt(x, y)] = NoPiece
IsFoe(f, c, x, y) ==
  OnBoard(x, y) /\ f.placement[SqAt(x, y)] # NoPiece /\ f.placement[SqAt(x, y)].color # c

Abs(n) == IF n < 0 THEN -n ELSE n
Steps == {<<dx, dy>> \in (-2..2) \X (-2..2) : dx # 0 \/ dy # 0}
RefDirs(k) ==
  CASE k = "r" -> {d \in Steps : Abs(d[1]) + Abs(d[2]) = 1}
    [] k = "b" -> {d \in Steps : Abs(d[1]) = 1 /\ Abs(d[2]) = 1}
    [] k \in {"q", "k"} -> {d \in Steps : Abs(d[1]) <= 1 /\ Abs(d[2]) <= 1}
    [] k = "n" -> {d \in Steps : Abs(d[1]) * Abs(d[2]) = 2}
    [] OTHER -> {}

\* The destinations of a piece of colour c on sq that moves as kind k.
RefMoves(k, f, c, u, sq) ==
  LET x == colNo[sq[1]]
      y == rowNo[sq[2]]
      fw == IF c = "w" THEN 1 ELSE -1
      free(tx, ty) == IsEmpty(f, tx, ty) \/ IsFoe(f, c, tx, ty)
  IN
  CASE k \in {"b", "r", "q"} ->
         {SqAt(x + n * d[1], y + n * d[2]) : <<d, n>> \in
            {dn \in RefDirs(k) \X (1..7) :
               /\ free(x + dn[2] * dn[1][1], y + dn[2] * dn[1][2])
               /\ \A m \in 1..(dn[2] - 1) : IsEmpty(f, x + m * dn[1][1], y + m * dn[1][2])}}
    [] k \in {"n", "k"} ->
         {SqAt(x + d[1], y + d[2]) : d \in {e \in RefDirs(k) : free(x + e[1], y + e[2])}}
    [] k = "p" ->
         (IF IsEmpty(f, x, y + fw) THEN {SqAt(x, y + fw)} ELSE {})
         \cup (IF IsEmpty(f, x, y + fw) /\ IsEmpty(f, x, y + 2 * fw) /\ sq \in u
               THEN {SqAt(x, y + 2 * fw)} ELSE {})
         \cup {SqAt(x + dx, y + fw) : dx \in {e \in {-1, 1} : IsFoe(f, c, x + e, y + fw)}}
    [] OTHER -> {}

Last(s) == s[Len(s)]

\* The squares of instance i that hold a piece of the colour to move.
OwnSquares(i) ==
  {sq \in Squares : fen[i].placement[sq] # NoPiece /\ fen[i].placement[sq].color = turn[i]}

\* ------------------------------------------------------------------ claims
\* C1: Mimic rule.  In every reachable state, for every piece of the colour
\* to move, the generated destinations are those of the piece's own kind
\* when that colour's history is empty, and those of the last kind of that
\* colour's own history otherwise, whatever the kind of the piece.
C1_MimicRule ==
  \A i \in Instances : \A sq \in OwnSquares(i) :
    LET h == moveHistory[i][turn[i]]
        piece == fen[i].placement[sq]
    IN calculateValidMoves(sq, fen[i], turn[i], moveHistory[i], unmoved[i])
         = RefMoves(IF h = <<>> THEN piece.type ELSE Last(h), fen[i], turn[i], unmoved[i], sq)

\* A state in which a piece moves by a borrowed geometry that differs from
\* its own and from the opponent's last kind, with a non-empty result.
C1_Witness ==
  \E i \in Instances : \E sq \in OwnSquares(i) :
    LET h == moveHistory[i][turn[i]]
        o == moveHistory[i][IF turn[i] = "w" THEN "b" ELSE "w"]
    IN /\ h # <<>> /\ o # <<>>
       /\ Last(h) # fen[i].placement[sq].type
       /\ Last(h) # Last(o)
       /\ calculateValidMoves(sq, fen[i], turn[i], moveHistory[i], unmoved[i]) # {}
       /\ calculateValidMoves(sq, fen[i], turn[i], moveHistory[i], unmoved[i])
            # RefMoves(fen[i].placement[sq].type, fen[i], turn[i], unmoved[i], sq)
       /\ calculateValidMoves(sq, fen[i], turn[i], moveHistory[i], unmoved[i])
            # RefMoves(Last(o), fen[i], turn[i], unmoved[i], sq)

\* The step is a call of handleMove by instance i that applies a move; its
\* origin and destination are lastMove'.from and lastMove'.to.
Applied(i) == lastMove' # lastMove /\ lastMove'.by = i

Opp(c) == IF c = "w" THEN "b" ELSE "w"

\* The state of instance i is the one its last applied move produced.
JustMoved(i) == lastMove.by = i /\ lastMove.ply = pliesPlayed(i)

\* C2 (as stated): when an applied move promotes a pawn, the kind appended
\* to the mover's history is queen.
C2_QueenRecorded ==
  [][\A i \in Instances :
       (/\ Applied(i)
        /\ fen[i].placement[lastMove'.from].type = "p"
        /\ fen'[i].placement[lastMove'.to].type = "q")
       => Last(moveHistory'[i][turn[i]]) = "q"]_vars

\* C2 (amended): when an applied move promotes a pawn, the kind appended to
\* the mover's history is pawn, the kind of the piece before the move.
C2_PawnRecorded ==
  [][\A i \in Instances :
       (/\ Applied(i)
        /\ fen[i].placement[lastMove'.from].type = "p"
        /\ fen'[i].placement[lastMove'.to].type = "q")
       => /\ Len(moveHistory'[i][turn[i]]) = Len(moveHistory[i][turn[i]]) + 1
          /\ Last(moveHistory'[i][turn[i]]) = "p"]_vars

\* A white pawn has just arrived on rank 8: a queen stands there and pawn
\* was recorded.
C2_Witness ==
  \E i \in Instances :
    /\ JustMoved(i)
    /\ lastMove.to[2] = "8"
    /\ fen[i].placement[lastMove.to].type = "q"
    /\ fen[i].placement[lastMove.to].color = "w"
    /\ fen[i].placement[lastMove.to].home[2] = "2"
    /\ Last(moveHistory[i].w) = "p"

\* C3: an applied move puts a queen of the mover's colour on the destination
\* when the mover is a pawn arriving on rank 8 (white) or rank 1 (black), and
\* puts the mover with its kind unchanged in every other case.
C3_PromotionRank ==
  [][\A i \in Instances :
       Applied(i) =>
         LET m == fen[i].placement[lastMove'.from]
             to == lastMove'.to
             placed == fen'[i].placement[to]
         IN /\ placed.color = m.color
            /\ placed.type =
                 IF m.type = "p" /\ ((m.color = "w" /\ to[2] = "8") \/ (m.color = "b" /\ to[2] = "1"))
                 THEN "q" ELSE m.type]_vars

\* C4: an applied move onto a king sets winner to the colour that moved and
\* leaves the capturing piece (or its promotion queen) on the destination;
\* an applied move onto anything else leaves winner unset.
C4_KingCapture ==
  [][\A i \in Instances :
       Applied(i) =>
         LET m == fen[i].placement[lastMove'.from]
             target == fen[i].placement[lastMove'.to]
             placed == fen'[i].placement[lastMove'.to]
         IN IF target.type = "k"
            THEN /\ winner'[i] = turn[i]
                 /\ turn[i] = m.color
                 /\ placed.color = m.color /\ placed.home = m.home
                 /\ placed.type = m.type \/ (m.type = "p" /\ placed.type = "q")
                 /\ placed # target
            ELSE winner'[i] = null]_vars

\* A king has just been captured: the winner is the colour of the piece
\* that now stands on the king's home square.
C4_Witness ==
  \E i \in Instances :
    /\ JustMoved(i)
    /\ winner[i] \in Colors
    /\ fen[i].placement[lastMove.to].color = winner[i]
    /\ \A sq \in Squares :
         ~(fen[i].placement[sq].type = "k" /\ fen[i].placement[sq].color = Opp(winner[i]))

\* C5: once winner is set in an instance, no step changes its board, turn,
\* histories, unmoved set, winner, selection or valid-move list, and no move
\* is applied by it.
C5_TerminalInert ==
  [][\A i \in Instances :
       winner[i] # null =>
         /\ ~Applied(i)
         /\ <<fen[i], turn[i], moveHistory[i], unmoved[i], winner[i]>>'
              = <<fen[i], turn[i], moveHistory[i], unmoved[i], winner[i]>>
         /\ <<selectedSquare[i], validMoves[i]>>' = <<selectedSquare[i], validMoves[i]>>]_vars

\* The board of a finished game is shown, with pieces of both colours on
\* squares that are clicked.
C5_Witness ==
  \E i \in Instances :
    /\ winner[i] # null /\ boardShown(i)
    /\ \E sq \in ClickSquares : fen[i].placement[sq].color = "w"
    /\ \E sq \in ClickSquares : fen[i].placement[sq].color = "b"

\* C6: in an online game every applied move appends one MOVE message with
\* the resulting fen, turn, history, unmoved set and winner to the messages
\* in flight to the remote peer.
C6_MoveIsSent ==
  [][\A i \in Instances :
       (Applied(i) /\ mode[i] \in {"ONLINE_HOST", "ONLINE_JOIN"}) =>
         inFlight'[Other(i)] =
           Append(inFlight[Other(i)],
                  [type |-> "MOVE",
                   data |-> GameData(fen'[i], turn'[i], moveHistory'[i], unmoved'[i], winner'[i])])]_vars

\* The effective movement kind of the piece on sq in instance i.
EffectiveKind(i, sq) ==
  IF moveHistory[i][turn[i]] = <<>> THEN fen[i].placement[sq].type
  ELSE Last(moveHistory[i][turn[i]])

Fw(i) == IF turn[i] = "w" THEN 1 ELSE -1

Generated(i, sq) == calculateValidMoves(sq, fen[i], turn[i], moveHistory[i], unmoved[i])

\* C7: dash rule.  Under pawn logic, for a piece of any kind on any rank, the
\* square two steps forward is generated iff the origin is in the unmoved set
\* and the squares one and two steps forward are on the board and empty.
C7_DashRule ==
  \A i \in Instances : \A sq \in OwnSquares(i) :
    EffectiveKind(i, sq) = "p" =>
      LET x == colNo[sq[1]]
          y == rowNo[sq[2]]
      IN /\ OnBoard(x, y + 2 * Fw(i)) =>
              (SqAt(x, y + 2 * Fw(i)) \in Generated(i, sq)
                 <=> /\ sq \in unmoved[i]
                     /\ IsEmpty(fen[i], x, y + Fw(i))
                     /\ IsEmpty(fen[i], x, y + 2 * Fw(i)))
         /\ \A t \in Generated(i, sq) : Abs(rowNo[t[2]] - y) = 2 => t = SqAt(x, y + 2 * Fw(i))

\* A piece that is not a pawn is offered the dash.
C7_Witness ==
  \E i \in Instances : \E sq \in OwnSquares(i) :
    /\ EffectiveKind(i, sq) = "p"
    /\ fen[i].placement[sq].type # "p"
    /\ OnBoard(colNo[sq[1]], rowNo[sq[2]] + 2 * Fw(i))
    /\ SqAt(colNo[sq[1]], rowNo[sq[2]] + 2 * Fw(i)) \in Generated(i, sq)

\* C8: the unmoved set only shrinks.  An applied move removes exactly its
\* origin square; no step other than a new game adds a square; and under
\* pawn logic no dash is generated from a square outside the set.
C8_UnmovedShrinks ==
  /\ [][\A i \in Instances :
          /\ Applied(i) => unmoved'[i] = unmoved[i] \ {lastMove'.from}
          /\ mode'[i] = mode[i] => unmoved'[i] \subseteq unmoved[i]]_vars
  /\ [](\A i \in Instances : \A sq \in OwnSquares(i) :
          (EffectiveKind(i, sq) = "p" /\ sq \notin unmoved[i]) =>
            \A t \in Generated(i, sq) : Abs(rowNo[t[2]] - rowNo[sq[2]]) # 2)

\* A square that was the origin of a move holds another piece, which moves
\* by pawn logic and has two empty squares ahead.
C8_Witness ==
  \E i \in Instances : \E sq \in OwnSquares(i) :
    /\ sq \in startUnmoved /\ sq \notin unmoved[i]
    /\ fen[i].placement[sq].home # sq
    /\ EffectiveKind(i, sq) = "p"
    /\ IsEmpty(fen[i], colNo[sq[1]], rowNo[sq[2]] + Fw(i))
    /\ IsEmpty(fen[i], colNo[sq[1]], rowNo[sq[2]] + 2 * Fw(i))

\* C9: the unmoved set is exactly the set of squares that hold a piece which
\* has never moved, and each such piece stands where it stood at game start.
C9_UnmovedExact ==
  \A i \in Instances :
    /\ unmoved[i] = {sq \in Squares : fen[i].placement[sq] # NoPiece /\ ~fen[i].placement[sq].moved}
    /\ \A sq \in unmoved[i] : fen[i].placement[sq].home = sq

\* C10: an applied move by colour c appends exactly one entry to c's history
\* and leaves the opponent's history unchanged; when the move does not
\* promote, the entry is the kind of the piece that moved.
C10_HistoryAppend ==
  [][\A i \in Instances :
       Applied(i) =>
         LET c == turn[i]
             m == fen[i].placement[lastMove'.from]
             placed == fen'[i].placement[lastMove'.to]
         IN /\ m.color = c
            /\ moveHistory'[i][Opp(c)] = moveHistory[i][Opp(c)]
            /\ Len(moveHistory'[i][c]) = Len(moveHistory[i][c]) + 1
            /\ SubSeq(moveHistory'[i][c], 1, Len(moveHistory[i][c])) = moveHistory[i][c]
            /\ placed.type = m.type => Last(moveHistory'[i][c]) = m.type]_vars

\* After e2-e4 and b8-c6 from a new game: white's history is [pawn] and
\* black's is [knight].
C10_Witness ==
  \E i \in Instances :
    /\ fen[i].placement[<<"e", "4">>] = Piece("p", "w", <<"e", "2">>, TRUE)
    /\ fen[i].placement[<<"c", "6">>] = Piece("n", "b", <<"b", "8">>, TRUE)
    /\ moveHistory[i] = [w |-> <<"p">>, b |-> <<"n">>]

RayAt(x, y, d, n) == SqAt(x + n * d[1], y + n * d[2])
RayOn(x, y, d, n) == OnBoard(x + n * d[1], y + n * d[2])

\* The distance of the first occupied square on the ray (8 when none).
FirstHit(f, x, y, d) ==
  IF \E n \in 1..7 : RayOn(x, y, d, n) /\ ~IsEmpty(f, x + n * d[1], y + n * d[2])
  THEN CHOOSE n \in 1..7 :
         /\ RayOn(x, y, d, n) /\ ~IsEmpty(f, x + n * d[1], y + n * d[2])
         /\ \A m \in 1..(n - 1) : IsEmpty(f, x + m * d[1], y + m * d[2])
  ELSE 8

\* C12: sliding.  Under bishop, rook or queen logic, in each direction of the
\* kind the generated squares are exactly the empty squares before the first
\* occupied square, plus that square iff it holds an opponent piece; nothing
\* beyond it and nothing off the kind's directions is generated.
C12_Sliding ==
  \A i \in Instances : \A sq \in OwnSquares(i) :
    EffectiveKind(i, sq) \in {"b", "r", "q"} =>
      LET x == colNo[sq[1]]
          y == rowNo[sq[2]]
          dirs == RefDirs(EffectiveKind(i, sq))
      IN /\ \A d \in dirs : \A n \in 1..7 :
              RayOn(x, y, d, n) =>
                (RayAt(x, y, d, n) \in Generated(i, sq)
                   <=> \/ n < FirstHit(fen[i], x, y, d)
                       \/ /\ n = FirstHit(fen[i], x, y, d)
                          /\ IsFoe(fen[i], turn[i], x + n * d[1], y + n * d[2]))
         /\ \A t \in Generated(i, sq) :
              \E d \in dirs : \E n \in 1..7 : RayOn(x, y, d, n) /\ t = RayAt(x, y, d, n)

\* A piece slides by a borrowed kind, captures on the first occupied square
\* of a ray, and an on-board square lies beyond it.
C12_Witness ==
  \E i \in Instances : \E sq \in OwnSquares(i) :
    /\ EffectiveKind(i, sq) \in {"b", "r", "q"}
    /\ fen[i].placement[sq].type # EffectiveKind(i, sq)
    /\ \E d \in RefDirs(EffectiveKind(i, sq)) :
         LET x == colNo[sq[1]]
             y == rowNo[sq[2]]
             n == FirstHit(fen[i], x, y, d)
         IN /\ n \in 2..6
            /\ RayOn(x, y, d, n + 1)
            /\ RayAt(x, y, d, n) \in Generated(i, sq)
            /\ RayAt(x, y, d, n + 1) \notin Generated(i, sq)

\* C13: under knight or king logic the generated squares are exactly the
\* squares at one of the kind's eight offsets that are on the board and do
\* not hold a piece of the mover's colour.
C13_Stepping ==
  \A i \in Instances : \A sq \in OwnSquares(i) :
    EffectiveKind(i, sq) \in {"n", "k"} =>
      LET x == colNo[sq[1]]
          y == rowNo[sq[2]]
          offs == RefDirs(EffectiveKind(i, sq))
      IN /\ Cardinality(offs) = 8
         /\ Generated(i, sq) =
              {SqAt(x + d[1], y + d[2]) : d \in
                 {e \in offs : /\ OnBoard(x + e[1], y + e[2])
                               /\ fen[i].placement[SqAt(x + e[1], y + e[2])].color # turn[i]}}

\* A piece that is not a king moves by king logic and has a diagonal step
\* among its destinations.
C13_Witness ==
  \E i \in Instances : \E sq \in OwnSquares(i) :
    /\ EffectiveKind(i, sq) = "k"
    /\ fen[i].placement[sq].type # "k"
    /\ \E t \in Generated(i, sq) : colNo[t[1]] # colNo[sq[1]] /\ rowNo[t[2]] # rowNo[sq[2]]

\* C14: under pawn logic, for a piece of any kind, forward is +1 rank for
\* white and -1 for black; the forward-one square is generated iff it is on
\* the board and empty, each forward-diagonal square iff it is on the board
\* and holds an opponent piece, and apart from the dash square nothing else.
C14_PawnLogic ==
  \A i \in Instances : \A sq \in OwnSquares(i) :
    EffectiveKind(i, sq) = "p" =>
      LET x == colNo[sq[1]]
          y == rowNo[sq[2]]
          fw == IF fen[i].placement[sq].color = "w" THEN 1 ELSE -1
          one == IF IsEmpty(fen[i], x, y + fw) THEN {SqAt(x, y + fw)} ELSE {}
          dash == IF OnBoard(x, y + 2 * fw) THEN {SqAt(x, y + 2 * fw)} ELSE {}
          diag == {SqAt(x + dx, y + fw) : dx \in {e \in {-1, 1} : IsFoe(fen[i], turn[i], x + e, y + fw)}}
      IN Generated(i, sq) \ dash = one \cup diag

\* A black piece that is not a pawn moves by pawn logic and is offered the
\* square one rank down.
C14_Witness ==
  \E i \in Instances : \E sq \in OwnSquares(i) :
    /\ EffectiveKind(i, sq) = "p"
    /\ fen[i].placement[sq].type # "p"
    /\ fen[i].placement[sq].color = "b"
    /\ rowNo[sq[2]] >= 1
    /\ SqAt(colNo[sq[1]], rowNo[sq[2]] - 1) \in Generated(i, sq)

\* C15: no generated destination holds a piece of the mover's colour, the
\* origin is never generated, and no applied move lands on a piece of the
\* mover's colour.
C15_NoFriendlyCapture ==
  /\ [](\A i \in Instances : \A sq \in OwnSquares(i) :
          /\ sq \notin Generated(i, sq)
          /\ \A t \in Generated(i, sq) : fen[i].placement[t].color # fen[i].placement[sq].color)
  /\ [][\A i \in Instances :
          Applied(i) =>
            fen[i].placement[lastMove'.to].color # fen[i].placement[lastMove'.from].color]_vars

\* A piece slides by a borrowed kind and the first occupied square of one of
\* its rays holds a piece of its own colour, after at least one empty square.
C15_Witness ==
  \E i \in Instances : \E sq \in OwnSquares(i) :
    /\ EffectiveKind(i, sq) \in {"b", "r", "q"}
    /\ fen[i].placement[sq].type # EffectiveKind(i, sq)
    /\ \E d \in RefDirs(EffectiveKind(i, sq)) :
         LET x == colNo[sq[1]]
             y == rowNo[sq[2]]
             n == FirstHit(fen[i], x, y, d)
         IN /\ n \in 2..7
            /\ fen[i].placement[RayAt(x, y, d, n)].color = turn[i]
            /\ RayAt(x, y, d, n - 1) \in Generated(i, sq)

\* The number of pieces on a board.
PieceCount(f) == Cardinality({sq \in Squares : f.placement[sq] # NoPiece})

\* C16: an applied move leaves the number of pieces unchanged when the
\* destination was empty and lowers it by exactly one when it was occupied,
\* with or without promotion.
C16_PieceCount ==
  [][\A i \in Instances :
       Applied(i) =>
         PieceCount(fen'[i]) =
           PieceCount(fen[i]) - (IF fen[i].placement[lastMove'.to] # NoPiece THEN 1 ELSE 0)]_vars

\* The first capture of a game has just been made: 31 pieces are left and
\* the mover stands on a square its victim never left.
C16_Witness ==
  \E i \in Instances :
    /\ JustMoved(i)
    /\ PieceCount(fen[i]) = 31
    /\ lastMove.to \in unmoved[i]
    /\ fen[i].placement[lastMove.to].home # lastMove.to

\* C17: an applied move (from, to) empties from, puts the mover (or its
\* promotion queen) on to, and leaves the other 62 squares unchanged.
C17_TwoSquaresOnly ==
  [][\A i \in Instances :
       Applied(i) =>
         LET from == lastMove'.from
             to == lastMove'.to
             m == fen[i].placement[from]
             placed == fen'[i].placement[to]
         IN /\ from # to
            /\ fen'[i].placement[from] = NoPiece
            /\ placed.color = m.color /\ placed.home = m.home
            /\ placed.type = m.type \/ (m.type = "p" /\ placed.type = "q")
            /\ \A sq \in Squares \ {from, to} : fen'[i].placement[sq] = fen[i].placement[sq]]_vars

\* A king or a pawn has just moved to another file and another rank, while
\* the square beside its origin on the destination's file holds a piece.
C17_Witness ==
  \E i \in Instances :
    /\ JustMoved(i)
    /\ lastMove.from[1] # lastMove.to[1] /\ lastMove.from[2] # lastMove.to[2]
    /\ fen[i].placement[lastMove.to].type \in {"k", "p"}
    /\ fen[i].placement[lastMove.from] = NoPiece
    /\ fen[i].placement[<<lastMove.to[1], lastMove.from[2]>>] # NoPiece

\* A MOVE message is delivered to instance i in this step.
MoveDelivered(i) ==
  /\ inFlight[i] # <<>>
  /\ inFlight'[i] = Tail(inFlight[i])
  /\ Head(inFlight[i]).type = "MOVE"

\* C18: a move is applied only for the colour whose turn it is; an applied
\* move by colour c that does not capture a king sets the turn to the
\* opponent of c; and the turn of an instance changes only when it applies a
\* move or receives the state of a move applied by its peer.
C18_TurnSwitch ==
  [][\A i \in Instances :
       /\ Applied(i) =>
            /\ fen[i].placement[lastMove'.from].color = turn[i]
            /\ fen[i].placement[lastMove'.to].type # "k" =>
                 (turn'[i] = Opp(turn[i]) /\ fen'[i].active = Opp(turn[i]))
       /\ turn'[i] # turn[i] => (Applied(i) \/ MoveDelivered(i))]_vars

\* Black has just moved without capturing a king: it is white's turn again.
C18_Witness ==
  \E i \in Instances :
    /\ JustMoved(i)
    /\ fen[i].placement[lastMove.to].color = "b"
    /\ winner[i] = null
    /\ turn[i] = "w"

\* The standard initial layout, written out rank by rank.
StdKind(x) ==
  CASE x \in {0, 7} -> "r" [] x \in {1, 6} -> "n" [] x \in {2, 5} -> "b" [] x = 3 -> "q" [] OTHER -> "k"

IsNewGame(i) ==
  /\ \A sq \in Squares :
       LET x == colNo[sq[1]]
           y == rowNo[sq[2]]
           p == fen[i].placement[sq]
       IN CASE y = 0 -> p.type = StdKind(x) /\ p.color = "w"
            [] y = 1 -> p.type = "p" /\ p.color = "w"
            [] y = 6 -> p.type = "p" /\ p.color = "b"
            [] y = 7 -> p.type = StdKind(x) /\ p.color = "b"
            [] OTHER -> p = NoPiece
  /\ fen[i].active = "w"
  /\ turn[i] = "w"
  /\ moveHistory[i].w = <<>> /\ moveHistory[i].b = <<>>
  /\ winner[i] = null
  /\ selectedSquare[i] = noSquare /\ validMoves[i] = {}
  /\ unmoved[i] = {sq \in Squares : sq[2] \in {"1", "2", "7", "8"}}
  /\ Cardinality(unmoved[i]) = 32

\* C19: a new game (resetGame, run by the mount effect and by every menu
\* button) yields the standard initial layout, turn white, empty histories,
\* no winner, no selection and the 32 squares of ranks 1, 2, 7, 8 unmoved.
C19_NewGame ==
  /\ [](\A i \in Instances : mode[i] = "MENU" => IsNewGame(i))
  /\ [][\A i \in Instances : mode'[i] # mode[i] => IsNewGame(i)']_vars

\* A menu button has been pressed and the board of the new game is shown.
C19_Witness ==
  \E i \in Instances : mode[i] # "MENU" /\ boardShown(i) /\ pliesPlayed(i) = 0 /\ IsNewGame(i)

\* A message is delivered to instance i in this step.
Delivered(i) == inFlight[i] # <<>> /\ inFlight'[i] = Tail(inFlight[i])

\* C20: on delivery of a MOVE or SYNC message the instance's fen, turn,
\* history, unmoved set and winner become exactly the values carried by the
\* message and its selection and valid-move list are cleared; a message of
\* another type changes nothing.
C20_WholesaleReplace ==
  [][\A i \in Instances :
       Delivered(i) =>
         LET d == Head(inFlight[i]) IN
         IF d.type \in {"MOVE", "SYNC"}
         THEN /\ fen'[i] = d.data.fen
              /\ turn'[i] = d.data.turn
              /\ moveHistory'[i] = d.data.history
              /\ unmoved'[i] = d.data.unmoved
              /\ winner'[i] = d.data.winner
              /\ selectedSquare'[i] = noSquare
              /\ validMoves'[i] = {}
         ELSE <<fen[i], turn[i], moveHistory[i], unmoved[i], winner[i], selectedSquare[i], validMoves[i]>>'
                = <<fen[i], turn[i], moveHistory[i], unmoved[i], winner[i], selectedSquare[i], validMoves[i]>>]_vars

\* The joiner has received the state of the host's first move: its unmoved
\* set has lost the origin of that move and equals the host's; a message of
\* another type, carrying a different state, is the next to be delivered.
C20_Witness ==
  \E i \in Instances :
    /\ mode[i] = "ONLINE_JOIN" /\ connOpen[i]
    /\ inFlight[i] # <<>>
    /\ Head(inFlight[i]).type \notin {"MOVE", "SYNC"}
    /\ Head(inFlight[i]).data.fen # fen[i]
    /\ pliesPlayed(i) = 1
    /\ lastMove.by = Other(i)
    /\ lastMove.from \notin unmoved[i]
    /\ unmoved[i] = unmoved[Other(i)] /\ fen[i] = fen[Other(i)]

\* C21: the conversions round-trip.  For each square s,
\* toSquare(toCoords(s)) = s; for each pair (x, y) of 0..7 x 0..7, toSquare
\* returns a square and toCoords of it is (x, y); for each pair with x or y
\* outside 0..7, toSquare returns null.
C21_RoundTrip ==
  /\ convPc = "sqXY" => (convXY[1] \in 0..7 /\ convXY[2] \in 0..7)
  /\ convPc = "sqXYSq" => convSq = convIn.sq
  /\ convPc \in {"xySq", "xySqXY"} =>
       (convSq = noSquare <=> ~(convIn.xy[1] \in 0..7 /\ convIn.xy[2] \in 0..7))
  /\ convPc = "xySq" /\ convSq # noSquare => convSq \in Squares
  /\ convPc = "xySqXY" => convXY = convIn.xy

\* Both chains have been run to their ends from arguments off the diagonal
\* of the board, and a pair off the board has been turned down.
C21_Witness ==
  \/ convPc = "sqXYSq" /\ convIn.sq = <<"h", "1">> /\ convSq = <<"h", "1">>
  \/ convPc = "xySqXY" /\ convIn.xy = <<2, 5>> /\ convXY = <<2, 5>>
  \/ convPc = "xySq" /\ convIn.xy = <<8, 3>> /\ convSq = noSquare

\* The game state an instance holds.
StateOf(i) == GameData(fen[i], turn[i], moveHistory[i], unmoved[i], winner[i])

\* The connection of a two-peer game is open on both sides and carries no
\* message.
Quiescent ==
  /\ \E h \in Instances : mode[h] = "ONLINE_HOST" /\ mode[Other(h)] = "ONLINE_JOIN"
  /\ \A i \in Instances : conn[i] # null /\ connOpen[i] /\ inFlight[i] = <<>>

\* C22: online convergence.  In a two-peer game, whenever the connection is
\* open and no message is in flight, host and joiner hold the same fen,
\* turn, move history, unmoved set and winner.
C22_Convergence ==
  Quiescent => \A i \in Instances : StateOf(i) = StateOf(Other(i))

\* Instance i is a peer of an online game.
Online(i) == mode[i] \in {"ONLINE_HOST", "ONLINE_JOIN"}

\* A click sequence of the user of instance i can apply a move now.
CanMove(i) ==
  /\ boardShown(i)
  /\ winner[i] = null
  /\ myColor[i] = "BOTH" \/ myColor[i] = turn[i]

\* C23: online mutual exclusion.  A peer applies a local move only when its
\* local turn is its own colour (white for the host, black for the joiner);
\* in no reachable state can both peers apply a local move, and the host's
\* turn being white never holds together with the joiner's turn being black.
C23_MutualExclusion ==
  /\ [](\A h \in Instances :
          (mode[h] = "ONLINE_HOST" /\ mode[Other(h)] = "ONLINE_JOIN") =>
            /\ ~(CanMove(h) /\ CanMove(Other(h)))
            /\ ~(turn[h] = "w" /\ turn[Other(h)] = "b"))
  /\ [][\A i \in Instances :
          (Applied(i) /\ Online(i)) =>
            /\ turn[i] = myColor[i]
            /\ myColor[i] = (IF mode[i] = "ONLINE_HOST" THEN "w" ELSE "b")]_vars

\* Both peers have moved, the joiner's last move has reached the host, and
\* the host alone can move.
C23_Witness ==
  \E h \in Instances :
    /\ mode[h] = "ONLINE_HOST" /\ mode[Other(h)] = "ONLINE_JOIN"
    /\ Quiescent
    /\ lastMove.by = Other(h) /\ lastMove.ply >= 2
    /\ StateOf(h) = StateOf(Other(h))
    /\ CanMove(h) /\ ~CanMove(Other(h))

\* The squares of instance i's board that hold a king of colour c.
KingsOf(i, c) ==
  {sq \in Squares : fen[i].placement[sq].type = "k" /\ fen[i].placement[sq].color = c}

\* C24: king invariant.  Each colour has at most one king on the board; the
\* winner is unset iff both kings are on the board; when the winner is c the
\* king of c is on the board and the king of c's opponent is not.
C24_KingInvariant ==
  \A i \in Instances :
    /\ \A c \in Colors : Cardinality(KingsOf(i, c)) <= 1
    /\ winner[i] = null <=> \A c \in Colors : KingsOf(i, c) # {}
    /\ winner[i] # null =>
         /\ winner[i] \in Colors
         /\ KingsOf(i, winner[i]) # {}
         /\ KingsOf(i, Opp(winner[i])) = {}

\* The joiner has received the state of the move that captured its king.
C24_Witness ==
  \E i \in Instances :
    /\ mode[i] = "ONLINE_JOIN"
    /\ winner[i] = "w"
    /\ KingsOf(i, "b") = {} /\ KingsOf(i, "w") # {}

\* C25: selection is never stale.  If a square is selected it holds a piece
\* of the colour to move and the stored valid-move list is the move set
\* generated for it from the current fen, turn, history and unmoved set; if
\* none is selected the list is empty; and every applied move has its
\* destination in the move set generated from the state it is applied to.
C25_SelectionFresh ==
  /\ [](\A i \in Instances :
          IF selectedSquare[i] # noSquare
          THEN /\ fen[i].placement[selectedSquare[i]] # NoPiece
               /\ fen[i].placement[selectedSquare[i]].color = turn[i]
               /\ validMoves[i] = Generated(i, selectedSquare[i])
          ELSE validMoves[i] = {})
  /\ [][\A i \in Instances :
          Applied(i) =>
            /\ selectedSquare[i] = lastMove'.from
            /\ lastMove'.to \in Generated(i, lastMove'.from)]_vars

\* The joiner, whose state has been replaced by the host's, has selected a
\* piece that has destinations.
C25_Witness ==
  \E i \in Instances :
    /\ mode[i] = "ONLINE_JOIN"
    /\ pliesPlayed(i) >= 1
    /\ selectedSquare[i] # noSquare
    /\ validMoves[i] # {}
    /\ validMoves[i] = Generated(i, selectedSquare[i])

\* C26: turn/history parity.  In every state reached from a new game, the
\* length of white's history minus the length of black's is 0 or 1, and it
\* is white's turn exactly when the two lengths are equal.
C26_Parity ==
  \A i \in Instances :
    LET nw == Len(moveHistory[i].w)
        nb == Len(moveHistory[i].b)
    IN /\ nw - nb \in {0, 1}
       /\ turn[i] = "w" <=> nw = nb
       /\ turn[i] \in Colors

\* A local game after black's second move and after white's third.
C26_Witness ==
  \E i \in Instances :
    /\ mode[i] = "LOCAL"
    /\ JustMoved(i)
    /\ \/ Len(moveHistory[i].w) = 2 /\ Len(moveHistory[i].b) = 2 /\ turn[i] = "w"
       \/ Len(moveHistory[i].w) = 3 /\ Len(moveHistory[i].b) = 2 /\ turn[i] = "b"

\* C27: no stuck position.  In every state with the winner unset, the
\* colour to move has at least one piece whose generated move set is not
\* empty.
C27_NoStuckPosition ==
  \A i \in Instances :
    winner[i] = null => \E sq \in OwnSquares(i) : Generated(i, sq) # {}

\* ------------------------------------------- the chess.js-backed App
\* The second App component of src/src/App.js.  chess.js is modelled by the
\* part of its contract the component uses: moves({square, verbose}) yields
\* the legal moves of standard chess with their flags, move() applies one,
\* history() lists the moves made on the object, and new Chess(fen) starts
\* an object with an empty history.  isGameOver() is checkmate or stalemate
\* (the draws by material, repetition and the fifty-move rule cannot arise
\* within MaxDrops plies); the initial position is not over.

\* Largest number of moves applied in one game of this component.
MaxDrops == 4

\* The squares pieces are dragged from and dropped on.
DropSquares ==
  {<<"e", "2">>, <<"e", "4">>, <<"e", "7">>, <<"e", "5">>, <<"g", "1">>, <<"f", "3">>,
   <<"d", "8">>, <<"h", "4">>, <<"f", "2">>, <<"g", "2">>, <<"g", "4">>, <<"b", "8">>,
   <<"c", "6">>}

\* chess.js: is the square (x, y) attacked by a piece of colour by?
cjAttacked(g, x, y, by) ==
  LET at(a, b) == g.placement[SqAt(a, b)]
      is(a, b, k) == OnBoard(a, b) /\ at(a, b).type = k /\ at(a, b).color = by
      back == IF by = "w" THEN -1 ELSE 1
  IN \/ \E d \in RefDirs("n") : is(x + d[1], y + d[2], "n")
     \/ \E d \in RefDirs("k") : is(x + d[1], y + d[2], "k")
     \/ \E dx \in {-1, 1} : is(x + dx, y + back, "p")
     \/ \E d \in RefDirs("q") :
          LET n == FirstHit(g, x, y, d) IN
          /\ n <= 7
          /\ \/ is(x + n * d[1], y + n * d[2], "q")
             \/ is(x + n * d[1], y + n * d[2], IF d[1] = 0 \/ d[2] = 0 THEN "r" ELSE "b")

cjInCheck(g, c) ==
  \E sq \in Squares :
    /\ g.placement[sq].type = "k" /\ g.placement[sq].color = c
    /\ cjAttacked(g, colNo[sq[1]], rowNo[sq[2]], Opp(c))

\* chess.js: the flags of the move from -> to of the side to move, or the
\* empty set when the pieces cannot move so (before the test for check).
cjFlags(g, from, to) ==
  LET p == g.placement[from]
      x == colNo[from[1]]
      y == rowNo[from[2]]
      tx == colNo[to[1]]
      ty == rowNo[to[2]]
      d == <<tx - x, ty - y>>
      fw == IF g.turn = "w" THEN 1 ELSE -1
      homeRow == IF g.turn = "w" THEN 1 ELSE 6
      lastRow == IF g.turn = "w" THEN 7 ELSE 0
      promo == IF ty = lastRow THEN {"p"} ELSE {}
      hit == IF IsFoe(g, g.turn, tx, ty) THEN {"c"} ELSE {"n"}
      free == g.placement[to] = NoPiece \/ g.placement[to].color # g.turn
  IN
  IF p = NoPiece \/ p.color # g.turn \/ from = to THEN {}
  ELSE CASE p.type = "p" ->
              IF d = <<0, fw>> /\ IsEmpty(g, tx, ty) THEN {"n"} \cup promo
              ELSE IF d = <<0, 2 * fw>> /\ y = homeRow /\ IsEmpty(g, x, y + fw) /\ IsEmpty(g, tx, ty)
              THEN {"b"}
              ELSE IF Abs(d[1]) = 1 /\ d[2] = fw /\ IsFoe(g, g.turn, tx, ty) THEN {"c"} \cup promo
              ELSE IF Abs(d[1]) = 1 /\ d[2] = fw /\ to = g.ep THEN {"e"}
              ELSE {}
         [] p.type \in {"n", "k"} ->
              IF d \in RefDirs(p.type) /\ free THEN hit ELSE {}
         [] OTHER ->
              IF \E r \in RefDirs(p.type) : \E n \in 1..7 :
                   /\ d = <<n * r[1], n * r[2]>>
                   /\ n <= FirstHit(g, x, y, r)
                   /\ free
              THEN hit ELSE {}

\* chess.js move(): the object after the move from -> to with the given flags.
cjMove(g, from, to, flags) ==
  LET p == g.placement[from]
      fw == IF g.turn = "w" THEN 1 ELSE -1
      placed == [p EXCEPT !.type = IF "p" \in flags THEN "q" ELSE p.type, !.moved = TRUE]
      taken == IF "e" \in flags THEN <<to[1], from[2]>> ELSE from
  IN [placement |-> [g.placement EXCEPT ![taken] = NoPiece, ![from] = NoPiece, ![to] = placed],
      turn |-> Opp(g.turn),
      ep |-> IF "b" \in flags THEN SqAt(colNo[from[1]], rowNo[from[2]] + fw) ELSE noSquare,
      plies |-> g.plies + 1,
      history |-> Append(g.history,
                         [piece |-> p.type, color |-> p.color, from |-> from, to |-> to, flags |-> flags])]

\* chess.js moves({square, verbose}).find(m => m.to === target): the flags of
\* the legal move, or the empty set when there is none.
cjLegal(g, from, to) ==
  LET flags == cjFlags(g, from, to) IN
  IF flags # {} /\ ~cjInCheck(cjMove(g, from, to, flags), g.turn) THEN flags ELSE {}

\* chess.js isGameOver(): the side to move has no legal move.
cjIsGameOver(g) ==
  \A from \in {sq \in Squares : g.placement[sq].color = g.turn} :
    \A to \in Squares : cjLegal(g, from, to) = {}

\* `MIMIC_${piece.toUpperCase()}`
toUpperCase == [p |-> "P", n |-> "N", b |-> "B", r |-> "R", q |-> "Q", k |-> "K"]
mimicTag ==
  [P |-> "MIMIC_P", N |-> "MIMIC_N", B |-> "MIMIC_B", R |-> "MIMIC_R", Q |-> "MIMIC_Q", K |-> "MIMIC_K"]

\* safeGameMutate: new Chess(g.fen()), then the move on the new object.
safeGameMutate(g, from, to, flags) == cjMove([g EXCEPT !.history = <<>>], from, to, flags)

\* handleTurnEnd(newGame): the gameState it sets, from the previous one.
\* turnNow is the turn of the render whose closure the callback holds.
handleTurnEnd(newGame, turnNow, prev) ==
  LET some == newGame.history # <<>>
      lastMoveVerbose == Last(newGame.history)
      pieceMovedChar == IF some THEN lastMoveVerbose.piece ELSE null
      totalMoves == Len(newGame.history)
      nextMoveLogic ==
        IF pieceMovedChar # null /\ totalMoves >= 3
        THEN mimicTag[toUpperCase[pieceMovedChar]] ELSE "STANDARD"
  IN [moveLogic |-> nextMoveLogic,
      lastMovedPieceType |-> IF pieceMovedChar # null THEN toUpperCase[pieceMovedChar] ELSE null,
      history |-> Append(prev.history,
                         [turn |-> turnNow, piece |-> pieceMovedChar,
                          from |-> IF some THEN lastMoveVerbose.from ELSE noSquare,
                          to |-> IF some THEN lastMoveVerbose.to ELSE noSquare]),
      pieceHasMoved |-> prev.pieceHasMoved]

\* isMoveAllowed(sourceSquare, targetSquare): "ok", or the warning it sets
\* before it returns false, or "throws" when prevMove.piece is null.
isMoveAllowed(sourceSquare, targetSquare) ==
  LET flags == cjLegal(game, sourceSquare, targetSquare)
      currentLogic == gameState.moveLogic
      movingPiece == game.placement[sourceSquare]
      twoStepMove == Abs(rowNo[sourceSquare[2]] - rowNo[targetSquare[2]]) = 2
      pieceIndex == colNo[sourceSquare[1]]
      prevMove == Last(gameState.history)
  IN
  IF isGameOver THEN "gameOver"
  ELSE IF flags = {} THEN "noSuchMove"
  ELSE IF currentLogic # "STANDARD" /\ mimicTag[toUpperCase[movingPiece.type]] # currentLogic
  THEN "mimic"
  ELSE IF movingPiece.type = "p" /\ twoStepMove /\ pieceIndex \in gameState.pieceHasMoved[game.turn]
  THEN "pawnMoved"
  ELSE IF "e" \in flags /\ gameState.history = <<>> THEN "enPassant"
  ELSE IF "e" \in flags /\ prevMove.piece = null THEN "throws"
  ELSE IF "e" \in flags /\ prevMove.piece # "p" THEN "enPassant"
  ELSE "ok"

\* onDrop(sourceSquare, targetSquare, piece), with the render that follows.
\* Whether React has run the updater passed to setGame by the time onDrop
\* reads move is not fixed by React's contract (it runs the updater early
\* only when the component has no update queued): both outcomes are kept.
onDrop(sourceSquare, targetSquare) ==
  /\ effects = <<>>
  /\ LET verdict == isMoveAllowed(sourceSquare, targetSquare) IN
     IF verdict = "throws"
     THEN warning' = null /\ UNCHANGED <<game, gameState, isGameOver, effects>>
     ELSE IF verdict # "ok"
     THEN warning' = verdict /\ UNCHANGED <<game, gameState, isGameOver, effects>>
     ELSE /\ game.plies < MaxDrops
          /\ game' = safeGameMutate(game, sourceSquare, targetSquare,
                                    cjLegal(game, sourceSquare, targetSquare))
          /\ isGameOver' = cjIsGameOver(game')
          /\ \/ /\ gameState' = handleTurnEnd(game, game.turn, gameState)
                /\ warning' = null
             \/ /\ warning' = "moveFailed"
                /\ UNCHANGED gameState
          /\ effects' = <<"fen", "turn">>
  /\ UNCHANGED <<appVars, convVars>>

\* useEffect(..., [game.fen()])
fenEffect ==
  /\ effects # <<>> /\ Head(effects) = "fen"
  /\ effects' = Tail(effects)
  /\ IF game.history = <<>>
     THEN gameState' = [gameState EXCEPT !.pieceHasMoved = [w |-> {}, b |-> {}],
                                         !.moveLogic = "STANDARD",
                                         !.lastMovedPieceType = null]
     ELSE LET lastMove2 == Last(game.history)
              currentTurn == IF game.turn = "w" THEN "b" ELSE "w"
              marked ==
                IF lastMove2.piece = "p" /\ lastMove2.color = currentTurn
                THEN [gameState.pieceHasMoved EXCEPT ![currentTurn] = @ \cup {colNo[lastMove2.from[1]]}]
                ELSE gameState.pieceHasMoved
          IN gameState' = [gameState EXCEPT !.pieceHasMoved = marked,
                                            !.moveLogic = IF "p" \in lastMove2.flags THEN "MIMIC_P" ELSE @]
  /\ UNCHANGED <<game, warning, isGameOver, appVars, convVars>>

\* useEffect(..., [turn, isGameOver])
turnEffect ==
  /\ effects # <<>> /\ Head(effects) = "turn"
  /\ effects' = Tail(effects)
  /\ warning' = IF ~isGameOver THEN null ELSE warning
  /\ UNCHANGED <<game, gameState, isGameOver, appVars, convVars>>

\* resetGame of the second App, with the render that follows.
resetGame2 ==
  /\ effects = <<>>
  /\ game' = newChess
  /\ gameState' = INITIAL_GAME_STATE
  /\ warning' = null
  /\ isGameOver' = FALSE
  /\ effects' = (IF game.plies # 0 THEN <<"fen">> ELSE <<>>)
                  \o (IF game.turn # "w" \/ isGameOver THEN <<"turn">> ELSE <<>>)
  /\ UNCHANGED <<appVars, convVars>>

MimicNext ==
  \/ \E sourceSquare \in DropSquares, targetSquare \in DropSquares : onDrop(sourceSquare, targetSquare)
  \/ fenEffect
  \/ turnEffect
  \/ resetGame2

MimicSpec == Init /\ [][MimicNext]_vars

\* C28: in the chess.js-backed App, once the effects of a move have run,
\* moveLogic is STANDARD while fewer than three moves have been played and
\* MIMIC_<kind of the piece just moved> from the third move on; and a move
\* applied after the third is a move of a piece of the kind moved before it.
C28_MimicFromThirdMove ==
  /\ []((effects = <<>> /\ game.plies < 3) => gameState.moveLogic = "STANDARD")
  /\ []((effects = <<>> /\ game.plies >= 3) =>
          gameState.moveLogic = mimicTag[toUpperCase[Last(game.history).piece]])
  /\ [][(game'.plies = game.plies + 1 /\ game.plies >= 3) =>
          Last(game'.history).piece = Last(game.history).piece]_vars

====
